---------------------------- MODULE Spec2Model ----------------------------
(***************************************************************************)
(* Model of the Minecraft server-list-ping worker: the request handler     *)
(* (fetch), the SRV resolver (srv.ts) and the protocol client              *)
(* (minecraft.ts).  Text is modelled as sequences of byte values, buffers  *)
(* as sequences of bytes with 0-based offsets as in the source.            *)
(***************************************************************************)
EXTENDS Integers, Sequences, FiniteSets, TLC

(***************************************************************************)
(* Program constants.                                                      *)
(***************************************************************************)
DEFAULT_PROTOCOL_VERSION == 765
NEXT_STATE_STATUS == 1
PACKET_HANDSHAKE == 0
PACKET_STATUS_REQUEST == 0
PACKET_STATUS_RESPONSE == 0
SRV_RECORD_TYPE == 33
DEFAULT_PORT == 25565

(***************************************************************************)
(* Bounds of the model.                                                    *)
(***************************************************************************)
\* largest number of bytes the transport hands over in one read
MaxChunk == 3
\* longest answer list given to the resolver in SpecResolve
MaxAnswers == 2
\* longest record list given to pickSrvRecord in SpecPick
MaxRecords == 3
\* largest weight and priority of a record in SpecPick
MaxWeight == 2
MaxPriority == 1

(***************************************************************************)
(* Buffers.                                                                *)
(***************************************************************************)
Min(a, b) == IF a < b THEN a ELSE b
Max(a, b) == IF a > b THEN a ELSE b

\* Buffer.prototype.subarray(start, end): negative offsets count from the
\* end of the buffer, and both offsets are clamped to 0..length.
Subarray(buf, start, end) ==
    LET n == Len(buf)
        s == IF start < 0 THEN Max(n + start, 0) ELSE Min(start, n)
        e == IF end < 0 THEN Max(n + end, 0) ELSE Min(end, n)
    IN  IF e <= s THEN << >> ELSE SubSeq(buf, s + 1, e)

\* mutant: the port written low byte first
UInt16LE(port) == << port % 256, (port \div 256) % 256 >>

\* portBuffer.writeUInt16BE(port, 0)
UInt16BE(port) == << (port \div 256) % 256, port % 256 >>

(***************************************************************************)
(* The leb package, as minecraft.ts uses it.  encodeInt32 / decodeInt32    *)
(* are the package's SIGNED LEB128 coders: 7 payload bits per byte, high   *)
(* bit for continuation, bit 6 of the last byte is the sign.               *)
(***************************************************************************)
RECURSIVE lebEncodeInt32(_)
lebEncodeInt32(value) ==
    LET b == value % 128
        rest == value \div 128
    IN  IF (rest = 0 /\ b < 64) \/ (rest = -1 /\ b >= 64)
        THEN << b >>
        ELSE << b + 128 >> \o lebEncodeInt32(rest)

\* number of bytes >= 0x80 in buf from 0-based offset index on
RECURSIVE ContinuationRun(_, _)
ContinuationRun(buf, index) ==
    IF index < Len(buf) /\ buf[index + 1] >= 128
    THEN 1 + ContinuationRun(buf, index + 1)
    ELSE 0

\* the signed value of the groups buf[index .. index+k-1], most significant
\* group last; inRange is FALSE once the value leaves the 32-bit range
RECURSIVE SignedGroups(_, _, _)
SignedGroups(buf, index, k) ==
    LET g == buf[index + 1] % 128
    IN  IF k = 1
        THEN [inRange |-> TRUE, value |-> IF g >= 64 THEN g - 128 ELSE g]
        ELSE LET hi == SignedGroups(buf, index + 1, k - 1)
             IN  IF hi.inRange /\ hi.value >= -16777216 /\ hi.value <= 16777215
                 THEN [inRange |-> TRUE, value |-> hi.value * 128 + g]
                 ELSE [inRange |-> FALSE, value |-> 0]

\* leb.decodeInt32(buffer, index): throws "Bogus encoding" when the buffer
\* ends before the terminating byte, "Result out of range" when the value
\* does not fit 32 bits; any number of bytes is accepted otherwise.
decodeInt32(buf, index) ==
    LET length == ContinuationRun(buf, index) + 1
    IN  IF index + length > Len(buf)
        THEN [ok |-> FALSE, error |-> "bogus encoding", value |-> 0, nextIndex |-> 0]
        ELSE LET r == SignedGroups(buf, index, length)
             IN  IF r.inRange
                 THEN [ok |-> TRUE, error |-> "", value |-> r.value,
                       nextIndex |-> index + length]
                 ELSE [ok |-> FALSE, error |-> "result out of range",
                       value |-> 0, nextIndex |-> 0]

encodeVarInt(value) == lebEncodeInt32(value)

encodeString(value) == encodeVarInt(Len(value)) \o value

\* payload = << >> stands for the omitted payload argument
buildPacket(packetId, payload) ==
    LET body == encodeVarInt(packetId) \o payload
    IN  encodeVarInt(Len(body)) \o body

buildHandshakePacket(serverAddress, port, protocolVersion) ==
    buildPacket(PACKET_HANDSHAKE,
                encodeVarInt(protocolVersion) \o encodeString(serverAddress)
                  \o UInt16BE(port) \o encodeVarInt(NEXT_STATE_STATUS))

buildStatusRequestPacket == buildPacket(PACKET_STATUS_REQUEST, << >>)


(***************************************************************************)
(* readPacket: one turn of its while loop on a chunk the reader delivered. *)
(* The result says whether the loop returned, and with which packet.       *)
(***************************************************************************)
readPacketTurn(buffer, chunk) ==
    LET buf == IF Len(buffer) > 0 THEN buffer \o chunk ELSE chunk
        decoded == decodeInt32(buf, 0)
        total == decoded.nextIndex + decoded.value
    IN  IF ~decoded.ok
        THEN [buffer |-> buf, returned |-> FALSE, packet |-> << >>]
        ELSE IF Len(buf) >= total
             THEN [buffer |-> buf, returned |-> TRUE,
                   packet |-> Subarray(buf, 0, total)]
             ELSE [buffer |-> buf, returned |-> FALSE, packet |-> << >>]

\* JSON.parse of the payload text: a document is recognised by its braces
JsonParses(payload) ==
    /\ Len(payload) >= 2
    /\ payload[1] = 123
    /\ payload[Len(payload)] = 125

\* parseStatusPacket: "" when it returns the document, else the error thrown
parseStatusPacket(packet) ==
    LET packetLength == decodeInt32(packet, 0)
    IN  IF ~packetLength.ok THEN packetLength.error
        ELSE
        LET packetType == decodeInt32(packet, packetLength.nextIndex)
        IN  IF ~packetType.ok THEN packetType.error
            ELSE IF packetType.value # PACKET_STATUS_RESPONSE
                 THEN "unexpected packet id"
            ELSE
            LET jsonLength == decodeInt32(packet, packetType.nextIndex)
            IN  IF ~jsonLength.ok THEN jsonLength.error
                ELSE
                LET start == jsonLength.nextIndex
                    end == start + jsonLength.value
                IN  IF end > Len(packet) THEN "status payload truncated"
                    ELSE IF JsonParses(Subarray(packet, start, end)) THEN ""
                    ELSE "json syntax error"

(***************************************************************************)
(* srv.ts                                                                  *)
(***************************************************************************)
IsDigit(b) == b >= 48 /\ b <= 57

RECURSIVE DigitRun(_, _, _)
\* value of the digits of text from 1-based position i on; seen = FALSE
\* while no digit has been read
DigitRun(text, i, acc) ==
    IF i <= Len(text) /\ IsDigit(text[i])
    THEN DigitRun(text, i + 1, [seen |-> TRUE, n |-> acc.n * 10 + (text[i] - 48)])
    ELSE acc

RECURSIVE SkipSpaces(_, _)
SkipSpaces(text, i) ==
    IF i <= Len(text) /\ text[i] = 32 THEN SkipSpaces(text, i + 1) ELSE i

\* Number.parseInt(text, 10): leading white space, an optional sign, then
\* digits up to the first other character; NaN when there is no digit
ParseInt(text) ==
    LET i == SkipSpaces(text, 1)
        signed == i <= Len(text) /\ text[i] \in {43, 45}
        neg == signed /\ text[i] = 45
        r == DigitRun(text, IF signed THEN i + 1 ELSE i, [seen |-> FALSE, n |-> 0])
    IN  [nan |-> ~r.seen, n |-> IF neg THEN 0 - r.n ELSE r.n]

\* data.trim().split(/\s+/)
RECURSIVE SplitWs(_, _, _)
SplitWs(text, i, cur) ==
    IF i > Len(text)
    THEN IF cur = << >> THEN << >> ELSE << cur >>
    ELSE IF text[i] = 32
         THEN IF cur = << >> THEN SplitWs(text, i + 1, << >>)
              ELSE << cur >> \o SplitWs(text, i + 1, << >>)
         ELSE SplitWs(text, i + 1, Append(cur, text[i]))

Tokens(text) ==
    LET t == SplitWs(text, 1, << >>)
    IN  IF t = << >> THEN << << >> >> ELSE t

\* a destructured element; a missing one is undefined, which parseInt and
\* the truthiness test treat like the empty text
TokenAt(tokens, i) == IF i <= Len(tokens) THEN tokens[i] ELSE << >>

\* targetRaw?.replace(/\.$/, '')
StripTrailingDot(text) ==
    IF Len(text) > 0 /\ text[Len(text)] = 46
    THEN SubSeq(text, 1, Len(text) - 1)
    ELSE text

NoRecord == [priority |-> 0, weight |-> 0, port |-> 0, target |-> << >>]

\* mutant: the port is not range-checked
parseSrvRecordAnyPort(answer) ==
    IF answer.type # SRV_RECORD_TYPE THEN [kind |-> "null", record |-> NoRecord]
    ELSE IF ~answer.hasData THEN [kind |-> "throw", record |-> NoRecord]
    ELSE
    LET tokens == Tokens(answer.data)
        priority == ParseInt(TokenAt(tokens, 1))
        weight == ParseInt(TokenAt(tokens, 2))
        port == ParseInt(TokenAt(tokens, 3))
        target == StripTrailingDot(TokenAt(tokens, 4))
    IN  IF priority.nan \/ weight.nan \/ port.nan \/ target = << >>
        THEN [kind |-> "null", record |-> NoRecord]
        ELSE [kind |-> "record",
              record |-> [priority |-> priority.n, weight |-> Max(0, weight.n),
                          port |-> port.n, target |-> target]]

\* parseSrvRecord(answer): kind is "record", "null", or "throw" when the
\* answer carries no text data (answer.data.trim raises)
parseSrvRecord(answer) ==
    IF answer.type # SRV_RECORD_TYPE THEN [kind |-> "null", record |-> NoRecord]
    ELSE IF ~answer.hasData THEN [kind |-> "throw", record |-> NoRecord]
    ELSE
    LET tokens == Tokens(answer.data)
        priority == ParseInt(TokenAt(tokens, 1))
        weight == ParseInt(TokenAt(tokens, 2))
        port == ParseInt(TokenAt(tokens, 3))
        target == StripTrailingDot(TokenAt(tokens, 4))
    IN  IF priority.nan \/ weight.nan \/ port.nan \/ target = << >>
        THEN [kind |-> "null", record |-> NoRecord]
        ELSE IF port.n < 1 \/ port.n > 65535
        THEN [kind |-> "null", record |-> NoRecord]
        ELSE [kind |-> "record",
              record |-> [priority |-> priority.n, weight |-> Max(0, weight.n),
                          port |-> port.n, target |-> target]]

RECURSIVE MinPriorityOf(_)
MinPriorityOf(recs) ==
    IF Len(recs) = 1 THEN recs[1].priority
    ELSE Min(recs[1].priority, MinPriorityOf(Tail(recs)))

\* mutant: no restriction to the lowest priority
CandidatesOfAnyPriority(recs) == recs

Candidates(recs) ==
    SelectSeq(recs, LAMBDA record : record.priority = MinPriorityOf(recs))

RECURSIVE TotalWeight(_)
TotalWeight(candidates) ==
    IF candidates = << >> THEN 0
    ELSE candidates[1].weight + TotalWeight(Tail(candidates))

\* the for loop of pickSrvRecord; roll2 is twice the roll
RECURSIVE WeightedWalk(_, _, _)
WeightedWalk(candidates, i, roll2) ==
    IF i > Len(candidates) THEN candidates[Len(candidates)]
    ELSE LET left == roll2 - 2 * candidates[i].weight
         IN  IF left <= 0 THEN candidates[i]
             ELSE WeightedWalk(candidates, i + 1, left)

\* mutant: with no weight to share out, the last candidate is returned
pickLastOnZeroWeight(recs, draw2) ==
    IF Len(recs) = 0 THEN [found |-> FALSE, record |-> NoRecord]
    ELSE LET candidates == Candidates(recs)
             totalWeight == TotalWeight(candidates)
         IN  IF totalWeight <= 0
             THEN [found |-> TRUE, record |-> candidates[Len(candidates)]]
             ELSE [found |-> TRUE, record |-> WeightedWalk(candidates, 1, draw2)]

\* pickSrvRecord(records); the roll Math.random() * totalWeight is draw2 / 2,
\* so draw2 ranges over 0 .. 2 * totalWeight - 1
pickSrvRecord(recs, draw2) ==
    IF Len(recs) = 0 THEN [found |-> FALSE, record |-> NoRecord]
    ELSE LET candidates == Candidates(recs)
             totalWeight == TotalWeight(candidates)
         IN  IF totalWeight <= 0
             THEN [found |-> TRUE, record |-> candidates[1]]
             ELSE [found |-> TRUE, record |-> WeightedWalk(candidates, 1, draw2)]

\* the draws Math.random() can produce for these records
Draws(recs) ==
    IF Len(recs) = 0 THEN {0}
    ELSE LET totalWeight == TotalWeight(Candidates(recs))
         IN  IF totalWeight <= 0 THEN {0} ELSE 0 .. (2 * totalWeight - 1)


\* buildSrvQueryUrl: the host name the query asks about, after SRV_PREFIX
buildSrvQueryUrl(hostname) ==
    IF Len(hostname) > 0 /\ hostname[Len(hostname)] = 46
    THEN SubSeq(hostname, 1, Len(hostname) - 1)
    ELSE hostname

NoTarget == [found |-> FALSE, hostname |-> << >>, port |-> 0]

RECURSIVE ParsedRecords(_)
\* answers.map(parseSrvRecord).filter(record => record !== null)
ParsedRecords(answers) ==
    IF answers = << >> THEN << >>
    ELSE LET first == parseSrvRecord(answers[1])
         IN  IF first.kind = "record"
             THEN << first.record >> \o ParsedRecords(Tail(answers))
             ELSE ParsedRecords(Tail(answers))

AnyThrows(answers) ==
    \E i \in 1 .. Len(answers) : parseSrvRecord(answers[i]).kind = "throw"

\* lines 138-152 of resolveMinecraftSrv, on the body of a response that is
\* ok: "throw" stands for an exception raised inside the try block
resolveFromBody(body, draw2) ==
    IF body.json = "bad" THEN [kind |-> "throw", target |-> NoTarget]
    ELSE LET answers == IF body.hasAnswer THEN body.answers ELSE << >>
         IN  IF AnyThrows(answers) THEN [kind |-> "throw", target |-> NoTarget]
             ELSE LET selection == pickSrvRecord(ParsedRecords(answers), draw2)
                  IN  IF ~selection.found
                      THEN [kind |-> "return", target |-> NoTarget]
                      ELSE [kind |-> "return",
                            target |-> [found |-> TRUE,
                                        hostname |-> selection.record.target,
                                        port |-> selection.record.port]]

\* mutant: no catch clause
resolveRethrows(attempt) == attempt

\* the catch clause of resolveMinecraftSrv: whatever was thrown becomes null
resolveCatch(attempt) ==
    IF attempt.kind = "throw" THEN [kind |-> "return", target |-> NoTarget]
    ELSE attempt

(***************************************************************************)
(* The request handler.                                                    *)
(***************************************************************************)
\* a query parameter: absent (null) or a text
Absent == [present |-> FALSE, text |-> << >>]
Param(text) == [present |-> TRUE, text |-> text]

parsePort(value) ==
    IF ~value.present \/ value.text = << >>
    THEN [ok |-> TRUE, value |-> DEFAULT_PORT]
    ELSE LET parsed == ParseInt(value.text)
         IN  IF parsed.nan \/ parsed.n < 1 \/ parsed.n > 65535
             THEN [ok |-> FALSE, value |-> 0]
             ELSE [ok |-> TRUE, value |-> parsed.n]

\* value 0 stands for "no protocol version given"
parseProtocol(value) ==
    IF ~value.present \/ value.text = << >>
    THEN [ok |-> TRUE, value |-> 0]
    ELSE LET parsed == ParseInt(value.text)
         IN  IF parsed.nan \/ parsed.n <= 0
             THEN [ok |-> FALSE, value |-> 0]
             ELSE [ok |-> TRUE, value |-> parsed.n]

isBlank(value) ==
    ~value.present \/ SkipSpaces(value.text, 1) > Len(value.text)

\* mutant: the lookup is made whatever the request says
shouldResolveAlways(requestedPort) == TRUE

shouldResolveSrv(requestedPort) == isBlank(requestedPort)

\* the target descriptor of lines 108-115
targetOf(hostname, parsedPort, srvTarget) ==
    [hostname |-> IF srvTarget.found THEN srvTarget.hostname ELSE hostname,
     port |-> IF srvTarget.found THEN srvTarget.port ELSE parsedPort,
     viaSrv |-> srvTarget.found,
     serverAddress |-> hostname]

\* mutant: the handshake is addressed to the transport target
pingOptionsTargetAddress(hostname, targetHostname, targetPort, protocolVersion) ==
    [hostname |-> targetHostname, port |-> targetPort,
     serverAddress |-> targetHostname,
     protocolVersion |-> IF protocolVersion = 0 THEN DEFAULT_PROTOCOL_VERSION
                         ELSE protocolVersion]

\* the options the handler passes to getServerStatus, lines 134-139
pingOptions(hostname, targetHostname, targetPort, protocolVersion) ==
    [hostname |-> targetHostname, port |-> targetPort,
     serverAddress |-> hostname,
     protocolVersion |-> IF protocolVersion = 0 THEN DEFAULT_PROTOCOL_VERSION
                         ELSE protocolVersion]

offlineErrorMarkers ==
    {"Network connection lost", "connection timed out", "ping timed out",
     "operation timed out", "connection closed before packet could be read"}

\* the HTTP status the handler answers with for a settled ping
responseFor(outcome) ==
    IF outcome = "value" THEN 200
    ELSE IF outcome \in offlineErrorMarkers THEN 522
    ELSE 500

(***************************************************************************)
(* Resources of one ping.                                                  *)
(***************************************************************************)
NoSocket == [opened |-> FALSE, hostname |-> << >>, port |-> 0,
             closed |-> FALSE, closeCalls |-> 0, closes |-> 0]
NoLock == [held |-> FALSE, releases |-> 0]

\* connect({ hostname, port })
connect(hostname, port) ==
    [opened |-> TRUE, hostname |-> hostname, port |-> port,
     closed |-> FALSE, closeCalls |-> 0, closes |-> 0]

\* socket.close(): closing a closed socket changes nothing
socketClose(s) ==
    [s EXCEPT !.closed = TRUE, !.closeCalls = @ + 1,
              !.closes = IF s.closed THEN @ ELSE @ + 1]

\* getWriter() / getReader()
getLock == [held |-> TRUE, releases |-> 0]

\* releaseLock(lock): a lock that is not held is left alone
releaseLock(lock) ==
    [held |-> FALSE, releases |-> IF lock.held THEN lock.releases + 1
                                  ELSE lock.releases]

\* mutant: a finally block that forgets the reader lock
finallyKeepsReader(r) ==
    [writer |-> releaseLock(r.writer), reader |-> r.reader,
     socket |-> socketClose(r.socket)]

\* the finally block of pingPromise
finallyCleanup(r) ==
    [writer |-> releaseLock(r.writer), reader |-> releaseLock(r.reader),
     socket |-> socketClose(r.socket)]

\* mutant: a timeout callback that leaves the socket open
onTimeoutAbandons(s) == s

\* the onTimeout callback getServerStatus hands to withTimeout
onTimeout(s) == socketClose(s)

\* mutant: the last settlement wins
settleOverwrites(current, result) == result

\* resolve / reject of the promise withTimeout returns: only the first
\* settlement takes effect
settle(current, result) == IF current = "pending" THEN result ELSE current

\* mutant: the timer callback closes the socket and rejects nothing
timerOnlyCloses(current) == current

\* the rejection the timer callback of withTimeout makes
timerReject(current) == settle(current, "ping timed out")


(***************************************************************************)
(* Inputs: requests, DNS replies and the bytes a server sends.             *)
(***************************************************************************)
RECURSIVE Dec(_)
\* the decimal text of a natural number
Dec(n) == IF n < 10 THEN << 48 + n >> ELSE Dec(n \div 10) \o << 48 + (n % 10) >>

\* the text "<priority> <weight> <port> <target>" of an SRV answer
SrvData(priority, weight, port, target) ==
    Dec(priority) \o << 32 >> \o Dec(weight) \o << 32 >> \o Dec(port)
      \o << 32 >> \o target

SrvAnswer(data) == [type |-> SRV_RECORD_TYPE, hasData |-> TRUE, data |-> data]

HostMc == << 109, 99 >>
HostDotted == << 97, 46 >>
Hostnames == {<< >>, HostMc, HostDotted}
PortParams == {Absent, Param(<< >>), Param(<< 32 >>), Param(Dec(25570)),
               Param(<< 48 >>)}
ProtocolParams == {Absent, Param(Dec(47)), Param(<< 48 >>)}

TargetB == << 98, 46 >>
TargetC == << 99, 46 >>

DnsBodies ==
    { [json |-> "bad", hasAnswer |-> FALSE, answers |-> << >>],
      [json |-> "ok", hasAnswer |-> FALSE, answers |-> << >>],
      [json |-> "ok", hasAnswer |-> TRUE, answers |-> << >>],
      [json |-> "ok", hasAnswer |-> TRUE,
       answers |-> << SrvAnswer(SrvData(0, 5, 25566, TargetB)) >>],
      [json |-> "ok", hasAnswer |-> TRUE,
       answers |-> << SrvAnswer(SrvData(0, 0, 25566, TargetB)),
                      SrvAnswer(SrvData(0, 1, 25567, TargetC)) >>],
      [json |-> "ok", hasAnswer |-> TRUE,
       answers |-> << SrvAnswer(SrvData(1, 5, 25566, TargetB)),
                      SrvAnswer(SrvData(0, 0, 25565, TargetC)) >>],
      [json |-> "ok", hasAnswer |-> TRUE,
       answers |-> << SrvAnswer(SrvData(0, 5, 0, TargetB)),
                      [type |-> 5, hasData |-> TRUE, data |-> TargetC] >>],
      [json |-> "ok", hasAnswer |-> TRUE,
       answers |-> << SrvAnswer(<< 120, 32, 53 >>),
                      SrvAnswer(SrvData(0, 5, 25566, TargetB)) >>],
      [json |-> "ok", hasAnswer |-> TRUE,
       answers |-> << [type |-> SRV_RECORD_TYPE, hasData |-> FALSE, data |-> << >>],
                      SrvAnswer(SrvData(0, 5, 25566, TargetB)) >>] }

RECURSIVE McVarInt(_)
\* the protocol's VarInt of a value >= 0: 7 bits per byte, least
\* significant group first, high bit set on all but the last byte
McVarInt(v) ==
    IF v < 128 THEN << v >> ELSE << 128 + (v % 128) >> \o McVarInt(v \div 128)

Fill(n) == [i \in 1 .. n |-> 97 + (i % 3)]

\* a status-response packet of the protocol whose JSON text has jsonLen bytes
StatusPacket(jsonLen) ==
    LET json == << 123 >> \o Fill(jsonLen - 2) \o << 125 >>
        body == << PACKET_STATUS_RESPONSE >> \o McVarInt(jsonLen) \o json
    IN  McVarInt(Len(body)) \o body

\* the valid packets a server may answer with
ValidPackets == {StatusPacket(2), StatusPacket(62), StatusPacket(128)}

\* the first bytes of a valid packet, from a server that stops in mid-packet
TruncatedPacket == SubSeq(StatusPacket(62), 1, 4)

\* everything a server may send before it falls silent or closes
Streams ==
    ValidPackets \cup
    { << >>,
      << 131 >>,
      TruncatedPacket,
      StatusPacket(2) \o << 7, 7 >>,
      << 4, 1, 2, 123, 125 >>,
      << 3, 0, 5, 123, 125 >>,
      << 4, 0, 2, 120, 120 >>,
      << 255, 255, 255, 255, 255, 15, 0 >>,
      << 128, 128, 128, 128, 128, 0, 0 >> }

NetworkErrors == {"Network connection lost", "connection refused"}

(***************************************************************************)
(* State.                                                                  *)
(***************************************************************************)
VARIABLES
    request,      \* the query parameters: hostname, port, protocolVersion
    pc,           \* where the handler is: start, srv_fetch, srv_body, ping, responded
    dnsQueries,   \* the SRV queries issued, by name
    srvTimer,     \* the timer of fetchWithTimeout
    srvTarget,    \* what resolveMinecraftSrv returned
    srvMode,      \* how the SRV resolution ended, none before
    target,       \* the target descriptor of the handler
    socket,       \* the transport of the ping
    writer,       \* the writer lock
    reader,       \* the reader lock
    written,      \* the packets handed to the writer, in order
    io,           \* where pingPromise is: none, w1, w2, rd, done
    stream,       \* the bytes the server sends
    serverCloses, \* whether the server closes after them
    delivered,    \* how many of them the reader has delivered
    buffer,       \* the buffer of readPacket
    packet,       \* the packet readPacket returned
    timer,        \* the timer of withTimeout
    pingPromise,  \* pending, value, or the error pingPromise rejected with
    outcome,      \* pending, value, or the error getServerStatus rejected with
    timedOutAt,   \* where pingPromise was when the timer fired, else none
    response,     \* the HTTP status answered, 0 before
    records,      \* the records a call of pickSrvRecord is given
    draw,         \* twice the roll of that call
    picked,       \* what the call returned
    callArgs,     \* the arguments of a function called on its own
    callResult    \* what that call returned

vars == << request, pc, dnsQueries, srvTimer, srvTarget, srvMode, target, socket, writer,
           reader, written, io, stream, serverCloses, delivered, buffer, packet,
           timer, pingPromise, outcome, timedOutAt, response, records, draw,
           picked, callArgs, callResult >>

callVars == << callArgs, callResult >>
pickVars == << records, draw, picked, callVars >>
srvVars == << dnsQueries, srvTimer, srvTarget, srvMode >>
pingVars == << target, socket, writer, reader, written, io, stream, serverCloses,
               delivered, buffer, packet, timer, pingPromise, outcome, timedOutAt >>

NoTargetDescriptor ==
    [hostname |-> << >>, port |-> 0, viaSrv |-> FALSE, serverAddress |-> << >>]

NotPicked == [found |-> FALSE, record |-> NoRecord]

\* the state before a request is handled, but for the request itself
Idle ==
    /\ dnsQueries = << >>
    /\ srvTimer = "unset"
    /\ srvTarget = NoTarget
    /\ srvMode = "none"
    /\ target = NoTargetDescriptor
    /\ socket = NoSocket
    /\ writer = NoLock
    /\ reader = NoLock
    /\ written = << >>
    /\ io = "none"
    /\ stream = << >>
    /\ serverCloses = FALSE
    /\ delivered = 0
    /\ buffer = << >>
    /\ packet = << >>
    /\ timer = "unset"
    /\ pingPromise = "pending"
    /\ outcome = "pending"
    /\ timedOutAt = "none"
    /\ response = 0

Init ==
    /\ request \in [hostname : Hostnames, port : PortParams,
                    protocolVersion : ProtocolParams]
    /\ pc = "start"
    /\ Idle
    /\ records = << >>
    /\ draw = 0
    /\ picked = NotPicked
    /\ callArgs = << >>
    /\ callResult = << >>

RequestValid ==
    /\ request.hostname # << >>
    /\ parsePort(request.port).ok
    /\ parseProtocol(request.protocolVersion).ok

\* lines 108-139 of the handler and lines 172-193 of getServerStatus, up to
\* the first await: the target is fixed, the socket opened, the locks
\* taken, the handshake write issued and the timer armed
StartPing(resolved) ==
    LET t == targetOf(request.hostname, parsePort(request.port).value, resolved)
        o == pingOptions(request.hostname, t.hostname, t.port,
                         parseProtocol(request.protocolVersion).value)
    IN  /\ target' = t
        /\ socket' = connect(o.hostname, o.port)
        /\ writer' = getLock
        /\ reader' = getLock
        /\ written' = << buildHandshakePacket(o.serverAddress, o.port,
                                              o.protocolVersion) >>
        /\ io' = "w1"
        /\ \E s \in Streams, c \in BOOLEAN : stream' = s /\ serverCloses' = c
        /\ timer' = "armed"
        /\ pc' = "ping"
        /\ UNCHANGED << delivered, buffer, packet, pingPromise, outcome,
                        timedOutAt, response >>

\* the handler answers 400 to a request it cannot validate
BadRequest ==
    /\ pc = "start"
    /\ ~RequestValid
    /\ pc' = "responded"
    /\ response' = 400
    /\ UNCHANGED << pickVars, request, srvVars, pingVars >>

\* a request with a port: no SRV lookup, the ping starts at once
FetchDirect ==
    /\ pc = "start"
    /\ RequestValid
    /\ ~shouldResolveSrv(request.port)
    /\ StartPing(NoTarget)
    /\ UNCHANGED << pickVars, request, srvVars >>

\* a request without a port: the SRV query is issued and awaited
FetchSrv ==
    /\ pc = "start"
    /\ RequestValid
    /\ shouldResolveSrv(request.port)
    /\ dnsQueries' = Append(dnsQueries, buildSrvQueryUrl(request.hostname))
    /\ srvTimer' = "armed"
    /\ pc' = "srv_fetch"
    /\ UNCHANGED << pickVars, request, srvTarget, srvMode, pingVars, response >>


\* how a response body makes the resolution end
BodyMode(body) ==
    IF body.json = "bad" THEN "malformed json"
    ELSE IF ~body.hasAnswer THEN "missing answer"
    ELSE IF body.answers = << >> THEN "empty answer"
    ELSE IF AnyThrows(body.answers) THEN "answer without data"
    ELSE IF ParsedRecords(body.answers) = << >> THEN "no valid record"
    ELSE "resolved"

\* the await of resolveMinecraftSrv in the handler (line 105) completes: a
\* returned target starts the ping, an exception ends the handler
SrvSettles(attempt) ==
    IF attempt.kind = "throw"
    THEN /\ pc' = "crashed"
         /\ srvTarget' = NoTarget
         /\ UNCHANGED << pingVars, response >>
    ELSE /\ srvTarget' = attempt.target
         /\ StartPing(attempt.target)

Thrown == [kind |-> "throw", target |-> NoTarget]
ReturnedNull == [kind |-> "return", target |-> NoTarget]

\* fetch rejects (network failure) before the lookup timer elapses
SrvFetchRejects ==
    /\ pc = "srv_fetch"
    /\ srvTimer = "armed"
    /\ srvTimer' = "cleared"
    /\ srvMode' = "fetch rejected"
    /\ SrvSettles(resolveCatch(Thrown))
    /\ UNCHANGED << pickVars, request, dnsQueries >>

\* the lookup timer elapses first: the request is aborted and fetch rejects
SrvTimeout ==
    /\ pc = "srv_fetch"
    /\ srvTimer = "armed"
    /\ srvTimer' = "fired"
    /\ srvMode' = "timeout abort"
    /\ SrvSettles(resolveCatch(Thrown))
    /\ UNCHANGED << pickVars, request, dnsQueries >>

\* a response arrives whose status is not a success
SrvResponseNotOk ==
    /\ pc = "srv_fetch"
    /\ srvTimer = "armed"
    /\ srvTimer' = "cleared"
    /\ srvMode' = "http status"
    /\ SrvSettles(resolveCatch(ReturnedNull))
    /\ UNCHANGED << pickVars, request, dnsQueries >>

\* a successful response arrives: fetchWithTimeout clears its timer and the
\* resolver awaits the body
SrvResponseOk ==
    /\ pc = "srv_fetch"
    /\ srvTimer = "armed"
    /\ srvTimer' = "cleared"
    /\ pc' = "srv_body"
    /\ UNCHANGED << pickVars, request, dnsQueries, srvTarget, srvMode, pingVars, response >>

\* the body arrives and is parsed, the records are selected from
SrvBody ==
    /\ pc = "srv_body"
    /\ \E body \in DnsBodies :
         \E draw2 \in (IF body.json = "ok" /\ body.hasAnswer /\ ~AnyThrows(body.answers)
                       THEN Draws(ParsedRecords(body.answers)) ELSE {0}) :
            /\ srvMode' = BodyMode(body)
            /\ SrvSettles(resolveCatch(resolveFromBody(body, draw2)))
    /\ UNCHANGED << pickVars, request, dnsQueries, srvTimer >>

(***************************************************************************)
(* The ping: pingPromise against the timer of withTimeout.                 *)
(***************************************************************************)
\* pingPromise settles with result: its finally block runs, then the
\* handlers withTimeout attached (lines 62-71), then the handler's own
\* continuation if this settled the call
FinishPing(result) ==
    LET c == finallyCleanup([writer |-> writer, reader |-> reader, socket |-> socket])
    IN  /\ writer' = c.writer
        /\ reader' = c.reader
        /\ socket' = c.socket
        /\ io' = "done"
        /\ pingPromise' = result
        /\ timer' = IF timer = "armed" THEN "cleared" ELSE timer
        /\ outcome' = settle(outcome, result)
        /\ response' = responseFor(outcome')
        /\ pc' = "responded"

\* the timer callback of withTimeout (lines 57-60)
TimerFires ==
    /\ timer = "armed"
    /\ timer' = "fired"
    /\ socket' = onTimeout(socket)
    /\ outcome' = timerReject(outcome)
    /\ timedOutAt' = io
    /\ response' = responseFor(outcome')
    /\ pc' = "responded"
    /\ UNCHANGED << pickVars, request, srvVars, target, writer, reader, written, io, stream,
                    serverCloses, delivered, buffer, packet, pingPromise >>

\* a pending write completes; the next step of pingPromise is issued
WriteDone ==
    /\ io \in {"w1", "w2"}
    /\ ~socket.closed
    /\ IF io = "w1"
       THEN /\ written' = Append(written, buildStatusRequestPacket)
            /\ io' = "w2"
       ELSE /\ io' = "rd"
            /\ UNCHANGED written
    /\ UNCHANGED << pickVars, request, pc, srvVars, target, socket, writer, reader, stream,
                    serverCloses, delivered, buffer, packet, timer, pingPromise,
                    outcome, timedOutAt, response >>

\* a pending write is rejected: the connection failed or the socket was closed
WriteFails ==
    /\ io \in {"w1", "w2"}
    /\ \E e \in NetworkErrors : FinishPing(e)
    /\ UNCHANGED << pickVars, request, srvVars, target, written, stream, serverCloses,
                    delivered, buffer, packet, timedOutAt >>

\* the sizes of the chunk the next read may deliver
ChunkSizes ==
    {n \in (0 .. MaxChunk) \cup {Len(stream) - delivered} :
        n <= Len(stream) - delivered}

\* reader.read() delivers a chunk: one turn of the loop of readPacket, and
\* when it returns, parseStatusPacket and the end of pingPromise
ReadChunk ==
    /\ io = "rd"
    /\ ~socket.closed
    /\ \E n \in ChunkSizes :
         LET turn == readPacketTurn(buffer, SubSeq(stream, delivered + 1, delivered + n))
         IN  /\ delivered' = delivered + n
             /\ buffer' = turn.buffer
             /\ IF turn.returned
                THEN /\ packet' = turn.packet
                     /\ FinishPing(LET e == parseStatusPacket(turn.packet)
                                   IN  IF e = "" THEN "value" ELSE e)
                ELSE /\ UNCHANGED << packet, pc, socket, writer, reader, io, timer,
                                     pingPromise, outcome, response >>
    /\ UNCHANGED << pickVars, request, srvVars, target, written, stream, serverCloses,
                    timedOutAt >>

\* reader.read() reports the end of the data: the server closed after its
\* last byte, or the socket was closed under the read
ReadEnd ==
    /\ io = "rd"
    /\ socket.closed \/ (serverCloses /\ delivered = Len(stream))
    /\ FinishPing("connection closed before packet could be read")
    /\ UNCHANGED << pickVars, request, srvVars, target, written, stream, serverCloses,
                    delivered, buffer, packet, timedOutAt >>

\* reader.read() is rejected
ReadFails ==
    /\ io = "rd"
    /\ \E e \in NetworkErrors : FinishPing(e)
    /\ UNCHANGED << pickVars, request, srvVars, target, written, stream, serverCloses,
                    delivered, buffer, packet, timedOutAt >>

Next ==
    \/ BadRequest
    \/ FetchDirect
    \/ FetchSrv
    \/ SrvFetchRejects
    \/ SrvTimeout
    \/ SrvResponseNotOk
    \/ SrvResponseOk
    \/ SrvBody
    \/ TimerFires
    \/ WriteDone
    \/ WriteFails
    \/ ReadChunk
    \/ ReadEnd
    \/ ReadFails

Spec == Init /\ [][Next]_vars

\* the timer of withTimeout is a setTimeout of the runtime: once armed it
\* fires unless it is cleared first
SpecLive == Init /\ [][Next]_vars /\ WF_vars(TimerFires)


(***************************************************************************)
(* pickSrvRecord on its own: every list of up to MaxRecords records, every *)
(* roll.                                                                   *)
(***************************************************************************)
\* the i-th record of a list: its port and target tell the records apart
RecordAt(i, priority, weight) ==
    [priority |-> priority, weight |-> weight, port |-> DEFAULT_PORT + i,
     target |-> << 96 + i >>]

RecordLists ==
    UNION { { [i \in 1 .. n |-> RecordAt(i, f[i][1], f[i][2])] :
              f \in [1 .. n -> (0 .. MaxPriority) \X (0 .. MaxWeight)] } :
            n \in 0 .. MaxRecords }

\* with no weight to share out the roll is not computed: both values stand
\* for any roll
RollsFor(recs) ==
    IF Len(recs) = 0 THEN {0, 1}
    ELSE 0 .. (2 * Max(TotalWeight(Candidates(recs)), 1) - 1)

InitPick ==
    /\ request = [hostname |-> HostMc, port |-> Absent, protocolVersion |-> Absent]
    /\ pc = "pick"
    /\ Idle
    /\ records \in RecordLists
    /\ draw \in RollsFor(records)
    /\ picked = NotPicked
    /\ callArgs = << >>
    /\ callResult = << >>

Pick ==
    /\ pc = "pick"
    /\ picked' = pickSrvRecord(records, draw)
    /\ pc' = "picked"
    /\ UNCHANGED << request, srvVars, pingVars, response, records, draw, callVars >>

NextPick == Pick

SpecPick == InitPick /\ [][NextPick]_vars


(***************************************************************************)
(* buildHandshakePacket on its own.                                        *)
(***************************************************************************)
Localhost == << 108, 111, 99, 97, 108, 104, 111, 115, 116 >>

HandshakeArgs ==
    [serverAddress : {HostMc, HostDotted, Localhost, Fill(63), Fill(64)},
     port : {1, 255, 256, 25565, 25566, 65535},
     protocolVersion : {1, 47, 63, 64, 107, 128, 765}]

\* the state of a function called on its own: no request is being handled
NoRequest ==
    /\ request = [hostname |-> HostMc, port |-> Absent, protocolVersion |-> Absent]
    /\ Idle
    /\ records = << >>
    /\ draw = 0
    /\ picked = NotPicked

InitBuild ==
    /\ NoRequest
    /\ pc = "build"
    /\ callArgs \in HandshakeArgs
    /\ callResult = << >>

Build ==
    /\ pc = "build"
    /\ callResult' = buildHandshakePacket(callArgs.serverAddress, callArgs.port,
                                      callArgs.protocolVersion)
    /\ pc' = "built"
    /\ UNCHANGED << request, srvVars, pingVars, response, records, draw, picked,
                    callArgs >>

NextBuild == Build

SpecBuild == InitBuild /\ [][NextBuild]_vars

(***************************************************************************)
(* parseSrvRecord on its own: answers whose data is put together from      *)
(* tokens, with one or two spaces between them.                            *)
(***************************************************************************)
PriorityTokens ==
    {<< 48 >>, << 49 >>, << 45, 49 >>, Dec(65535), Dec(65536), << 55, 120 >>,
     << 120 >>}
WeightTokens == {<< 48 >>, << 53 >>, << 45, 51 >>, Dec(65536)}
PortTokens == {<< 48 >>, << 49 >>, Dec(25565), Dec(65535), Dec(65536), << 112 >>}
TargetTokens == {<< 98, 46 >>, << 99 >>, << 46 >>, << 98, 46, 46 >>}

\* the four tokens, or the first three when the target is missing
TokenLists ==
    (PriorityTokens \X WeightTokens \X PortTokens \X TargetTokens)
      \cup (PriorityTokens \X WeightTokens \X PortTokens)

RECURSIVE JoinTokens(_, _)
JoinTokens(tokens, gap) ==
    IF Len(tokens) = 1 THEN tokens[1]
    ELSE tokens[1] \o gap \o JoinTokens(Tail(tokens), gap)

ParseArgs ==
    { [tokens |-> t,
       answer |-> [type |-> ty, hasData |-> TRUE,
                   data |-> gap \o JoinTokens(t, gap)]] :
      t \in TokenLists, gap \in {<< 32 >>, << 32, 32 >>},
      ty \in {SRV_RECORD_TYPE, 5} }

InitParse ==
    /\ NoRequest
    /\ pc = "parse"
    /\ callArgs \in ParseArgs
    /\ callResult = << >>

Parse ==
    /\ pc = "parse"
    /\ callResult' = parseSrvRecord(callArgs.answer)
    /\ pc' = "parsed"
    /\ UNCHANGED << request, srvVars, pingVars, response, records, draw, picked,
                    callArgs >>

NextParse == Parse

SpecParse == InitParse /\ [][NextParse]_vars

(***************************************************************************)
(* The body handling of resolveMinecraftSrv on its own: every list of up   *)
(* to MaxAnswers answers, valid and invalid, and every roll.               *)
(***************************************************************************)
TargetD == << 100 >>

SampleAnswers ==
    { SrvAnswer(SrvData(0, 5, 25566, TargetB)),
      SrvAnswer(SrvData(0, 0, 25567, TargetC)),
      SrvAnswer(SrvData(1, 9, 25568, TargetD)),
      SrvAnswer(<< 120, 32, 53 >>),
      SrvAnswer(SrvData(0, 5, 0, TargetB)),
      SrvAnswer(Dec(0) \o << 32 >> \o Dec(5) \o << 32 >> \o Dec(25566)),
      [type |-> 5, hasData |-> TRUE, data |-> TargetC],
      [type |-> 5, hasData |-> FALSE, data |-> << >>],
      [type |-> SRV_RECORD_TYPE, hasData |-> FALSE, data |-> << >>] }

AnswerLists ==
    UNION { [1 .. n -> SampleAnswers] : n \in 0 .. MaxAnswers }

BodyOf(answers) == [json |-> "ok", hasAnswer |-> TRUE, answers |-> answers]

ResolveArgs ==
    UNION { { [answers |-> a, draw2 |-> d] :
              d \in (IF AnyThrows(a) THEN {0} ELSE Draws(ParsedRecords(a))) } :
            a \in AnswerLists }

InitResolve ==
    /\ NoRequest
    /\ pc = "resolve"
    /\ callArgs \in ResolveArgs
    /\ callResult = << >>

Resolve ==
    /\ pc = "resolve"
    /\ callResult' = resolveCatch(resolveFromBody(BodyOf(callArgs.answers),
                                                  callArgs.draw2))
    /\ pc' = "resolved"
    /\ UNCHANGED << request, srvVars, pingVars, response, records, draw, picked,
                    callArgs >>

NextResolve == Resolve

SpecResolve == InitResolve /\ [][NextResolve]_vars

(***************************************************************************)
(* parseStatusPacket on its own: packets put together from a length        *)
(* prefix, a packet id, a string length and a payload, matching or not.    *)
(***************************************************************************)
StatusParts ==
    [prefix : {<< 3 >>, << 4 >>, << 200, 1 >>},
     id : {<< 0 >>, << 1 >>, << 127 >>, << 128, 1 >>},
     jsonLength : {<< 0 >>, << 2 >>, << 5 >>, << 63 >>, << 64 >>, << 100 >>,
                   << 128, 1 >>},
     payload : {<< >>, << 123, 125 >>, << 123 >>, << 120, 120 >>,
                << 123, 125, 7 >>, << 123 >> \o Fill(61) \o << 125 >>,
                << 123 >> \o Fill(62) \o << 125 >>}]

InitStatus ==
    /\ NoRequest
    /\ pc = "status"
    /\ callArgs \in StatusParts
    /\ callResult = << >>

ParseStatus ==
    /\ pc = "status"
    /\ callResult' = parseStatusPacket(callArgs.prefix \o callArgs.id
                         \o callArgs.jsonLength \o callArgs.payload)
    /\ pc' = "status_parsed"
    /\ UNCHANGED << request, srvVars, pingVars, response, records, draw, picked,
                    callArgs >>

NextStatus == ParseStatus

SpecStatus == InitStatus /\ [][NextStatus]_vars

(***************************************************************************)
(* Properties.                                                             *)
(***************************************************************************)
ConnectionClosedError == "connection closed before packet could be read"
PingTimeoutError == "ping timed out"

Released(lock) == ~lock.held /\ lock.releases = 1

\* C1: once the timer of withTimeout has fired, the call has failed with
\* 'ping timed out' and socket.close() has been called on the transport, at
\* whichever step (a write or the read) pingPromise was blocked.
C1_TimeoutClosesSocket ==
    timer = "fired" =>
        /\ outcome = PingTimeoutError
        /\ socket.closed
        /\ socket.closeCalls >= 1
        /\ timedOutAt \in {"w1", "w2", "rd"}

\* C1 witness: the timer fired while the read was pending, and the read is
\* still pending
C1_Witness ==
    timer = "fired" /\ timedOutAt = "rd" /\ io = "rd" /\ outcome = PingTimeoutError

\* C2: when pingPromise has ended, on any path, the writer lock, the reader
\* lock and the transport have each been released exactly once (a second
\* close or release is a no-op); on the timeout path the transport has been
\* closed exactly once, before and after the late completion.
C2_ReleasedExactlyOnce ==
    /\ io = "done" => /\ Released(writer)
                      /\ Released(reader)
                      /\ socket.closed /\ socket.closes = 1
    /\ timer = "fired" => socket.closed /\ socket.closes = 1

\* C2 witness: the timeout path after its late completion, where close was
\* called twice and took effect once
C2_Witness ==
    /\ io = "done" /\ timer = "fired"
    /\ socket.closeCalls = 2 /\ socket.closes = 1
    /\ Released(writer) /\ Released(reader)

\* C3: the callResult of getServerStatus is settled once and never replaced, and
\* a completion of pingPromise after the timer fired leaves the timeout
\* error in place and still releases both locks and closes the socket.
C3_LateCompletionSuppressed ==
    [][ /\ outcome # "pending" => outcome' = outcome
        /\ (timer = "fired" /\ io # "done" /\ io' = "done") =>
              /\ outcome' = PingTimeoutError
              /\ response' = 522
              /\ Released(writer') /\ Released(reader')
              /\ socket'.closed ]_vars

\* C3 witness: pingPromise ended with its own error after the timer fired,
\* and the call still reports the timeout
C3_Witness ==
    /\ timer = "fired" /\ io = "done"
    /\ pingPromise \notin {"pending", PingTimeoutError}
    /\ outcome = PingTimeoutError

\* the server-address and port fields of a handshake packet, read back by
\* the layout VarInt(len) VarInt(id) VarInt(version) VarInt(n) addr port(2) ...
HandshakeField(pkt) ==
    LET len == decodeInt32(pkt, 0)
        id == decodeInt32(pkt, len.nextIndex)
        version == decodeInt32(pkt, id.nextIndex)
        n == decodeInt32(pkt, version.nextIndex)
        at == n.nextIndex
    IN  [address |-> SubSeq(pkt, at + 1, at + n.value),
         port |-> pkt[at + n.value + 1] * 256 + pkt[at + n.value + 2]]

\* C4 as claimed: the handshake written carries the caller's host name and
\* the caller's requested or default port, whatever the transport target is.
C4_HandshakeCarriesOriginalPort ==
    written # << >> =>
        /\ HandshakeField(written[1]).address = request.hostname
        /\ HandshakeField(written[1]).port = parsePort(request.port).value

\* C4 amended: the handshake written carries the caller's host name in its
\* server-address field and the port of the transport target in its port
\* field; the transport connects to the target's host and port.
C4_HandshakeAddressOriginalPortTarget ==
    written # << >> =>
        /\ HandshakeField(written[1]).address = request.hostname
        /\ HandshakeField(written[1]).port = target.port
        /\ socket.hostname = target.hostname
        /\ socket.port = target.port
        /\ target.viaSrv => target.hostname = srvTarget.hostname
                            /\ target.port = srvTarget.port

\* C4 witness: SRV resolution sent the transport to another host and port,
\* and the handshake has been written
C4_Witness ==
    /\ written # << >>
    /\ target.viaSrv
    /\ target.hostname # request.hostname
    /\ target.port # parsePort(request.port).value

SrvFailureModes ==
    {"fetch rejected", "timeout abort", "http status", "malformed json",
     "missing answer", "empty answer", "no valid record", "answer without data"}

\* C5: whichever way the SRV resolution fails, resolveMinecraftSrv returns
\* null without raising, and the ping is started against the caller's host
\* name on port 25565 with viaSrv false.
C5_SrvFailureAbsorbed ==
    srvMode \in SrvFailureModes =>
        /\ pc \in {"ping", "responded"}
        /\ ~srvTarget.found
        /\ socket.opened
        /\ socket.hostname = request.hostname
        /\ socket.port = 25565
        /\ ~target.viaSrv

\* C5 witness: the lookup timed out and the ping went to the default port
C5_Witness ==
    srvMode = "timeout abort" /\ socket.opened /\ socket.port = 25565

PortSupplied == request.port.present /\ request.port.text # << >>

\* C6: an SRV query is issued only for a request without a port; when the
\* transport is opened for a request with a port no query was made and the
\* target is the given host and port, and for a request without one exactly
\* one query was made and has completed.
C6_SrvIffNoPort ==
    /\ Len(dnsQueries) <= 1
    /\ dnsQueries # << >> => ~PortSupplied
    /\ socket.opened /\ PortSupplied =>
          /\ dnsQueries = << >>
          /\ socket.hostname = request.hostname
          /\ socket.port = ParseInt(request.port.text).n
          /\ ~target.viaSrv
    /\ socket.opened /\ ~PortSupplied =>
          /\ Len(dnsQueries) = 1
          /\ srvMode # "none"
          /\ srvTimer \in {"cleared", "fired"}

\* C6 witness: a request without a port whose one lookup resolved before the
\* transport was opened
C6_Witness ==
    socket.opened /\ ~PortSupplied /\ Len(dnsQueries) = 1 /\ target.viaSrv

IsLowestPriority(i) ==
    \A j \in 1 .. Len(records) : records[j].priority >= records[i].priority

\* C7: pickSrvRecord returns null only for an empty list, and otherwise a
\* record of the list whose priority no record of the list undercuts.
C7_PickLowestPriority ==
    pc = "picked" =>
        IF records = << >> THEN ~picked.found
        ELSE /\ picked.found
             /\ \E i \in 1 .. Len(records) :
                   records[i] = picked.record /\ IsLowestPriority(i)

\* C7 witness: a pick from a list that holds records of two priorities, the
\* first of them not of the lowest
C7_Witness ==
    /\ pc = "picked" /\ picked.found
    /\ Len(records) >= 2
    /\ ~IsLowestPriority(1)

ZeroWeightTier ==
    /\ records # << >>
    /\ \A i \in 1 .. Len(records) : IsLowestPriority(i) => records[i].weight = 0

FirstLowest ==
    CHOOSE i \in 1 .. Len(records) :
        IsLowestPriority(i) /\ \A j \in 1 .. (i - 1) : ~IsLowestPriority(j)

\* C8: when the records of the lowest priority all have weight 0,
\* pickSrvRecord returns the first of them in list order, whatever the roll.
C8_ZeroWeightFirst ==
    (pc = "picked" /\ ZeroWeightTier) => picked.record = records[FirstLowest]

\* C8 witness: two zero-weight records share the lowest priority, after a
\* record of a higher one, and the roll is not 0
C8_Witness ==
    /\ pc = "picked" /\ ZeroWeightTier
    /\ Len(records) >= 3
    /\ ~IsLowestPriority(1) /\ IsLowestPriority(2) /\ IsLowestPriority(3)
    /\ draw = 1

\* readPacket returned a packet (pingPromise got as far as parsing it)
ReadReturned ==
    io = "done" /\ pingPromise \notin NetworkErrors \cup {ConnectionClosedError}

\* C9 as claimed: when the bytes of one valid packet arrive in chunks, the
\* packet readPacket returns is the one it returns for the same bytes in a
\* single chunk.
C9_ChunkedEqualsWhole ==
    (stream \in ValidPackets /\ ReadReturned) =>
        packet = readPacketTurn(<< >>, stream).packet

\* the buffer starts with a length prefix of 6 bytes or more
LongPrefix(buf) == ContinuationRun(buf, 0) >= 5

\* C10 as claimed: a truncated length prefix leaves readPacket waiting, and
\* a length prefix of 6 or more bytes makes it fail with an error of its own.
C10_LongPrefixIsFatal ==
    io \in {"rd", "done"} /\ buffer # << >> =>
        /\ (~LongPrefix(buffer) /\ ~decodeInt32(buffer, 0).ok /\ io = "done")
              => pingPromise \in NetworkErrors \cup {ConnectionClosedError}
        /\ LongPrefix(buffer) =>
              /\ io = "done"
              /\ pingPromise \notin NetworkErrors \cup
                    {"pending", "value", ConnectionClosedError}


\* the signed LEB128 bytes of a value in 0 .. 16383, written out by cases
SignedLeb(v) ==
    IF v < 64 THEN << v >>
    ELSE IF v < 8192 THEN << 128 + (v % 128), v \div 128 >>
    ELSE << 128 + (v % 128), 128 + ((v \div 128) % 128), 0 >>

\* the protocol's VarInt bytes of a value in 0 .. 16383, written out by cases
ProtocolVarInt(v) ==
    IF v < 128 THEN << v >> ELSE << 128 + (v % 128), v \div 128 >>

ExampleArgs ==
    [serverAddress |-> Localhost, port |-> 25565, protocolVersion |-> 765]

RECURSIVE CumulativeWeight(_)
\* the weight of the lowest-priority records among records[1 .. i]
CumulativeWeight(i) ==
    IF i = 0 THEN 0
    ELSE CumulativeWeight(i - 1)
           + (IF IsLowestPriority(i) THEN records[i].weight ELSE 0)

WeightedTier == records # << >> /\ ~ZeroWeightTier

\* C12 as claimed: when the lowest-priority records have a positive total
\* weight, the record returned never has weight 0, whatever the roll in
\* [0, totalWeight), the roll 0 included.
C12_ZeroWeightNeverDrawn ==
    (pc = "picked" /\ WeightedTier) => picked.record.weight > 0

\* C13 as claimed: when the lowest-priority records have a positive total
\* weight, the record returned is the first of them whose cumulative weight
\* is strictly greater than the roll (draw is twice the roll).
C13_FirstCumulativeAboveRoll ==
    (pc = "picked" /\ WeightedTier) =>
        \E i \in 1 .. Len(records) :
            /\ IsLowestPriority(i)
            /\ picked.record = records[i]
            /\ 2 * CumulativeWeight(i) > draw
            /\ \A j \in 1 .. (i - 1) :
                  IsLowestPriority(j) => 2 * CumulativeWeight(j) <= draw


\* an answer that passes the validation of parseSrvRecord on its own
IsValidAnswer(answer) ==
    /\ answer.type = 33
    /\ answer.hasData
    /\ parseSrvRecord(answer).kind = "record"

\* C14 as claimed: the resolver returns what it returns for the valid
\* answers alone, whichever invalid answers come with them (another type, a
\* field that is no integer, a port out of range, no target, no text data).
C14_InvalidAnswerDiscardedAlone ==
    pc = "resolved" =>
        callResult = resolveCatch(resolveFromBody(
                        BodyOf(SelectSeq(callArgs.answers, IsValidAnswer)),
                        callArgs.draw2))

\* the target a token stands for: the token less one trailing dot
TargetOfToken(token) ==
    IF token[Len(token)] = 46 THEN SubSeq(token, 1, Len(token) - 1) ELSE token

\* C15 as claimed: a record parseSrvRecord produces has priority and weight
\* in 0..65535, port in 1..65535 and a non-empty target, the token less its
\* trailing dot.
C15_RecordFieldsInRange ==
    (pc = "parsed" /\ callResult.kind = "record") =>
        /\ callResult.record.priority \in 0 .. 65535
        /\ callResult.record.weight \in 0 .. 65535
        /\ callResult.record.port \in 1 .. 65535
        /\ Len(callArgs.tokens) = 4
        /\ callResult.record.target # << >>
        /\ callResult.record.target = TargetOfToken(callArgs.tokens[4])

\* C15 amended: a record parseSrvRecord produces has an integer priority of
\* either sign, a weight >= 0 (a negative one coerced to 0, no upper limit),
\* port in 1..65535 and a non-empty target, the token less one trailing dot.
C15_RecordFields ==
    (pc = "parsed" /\ callResult.kind = "record") =>
        /\ callResult.record.priority \in Int
        /\ callResult.record.weight >= 0
        /\ (ParseInt(callArgs.tokens[2]).n < 0 => callResult.record.weight = 0)
        /\ callResult.record.port \in 1 .. 65535
        /\ Len(callArgs.tokens) = 4
        /\ callResult.record.target # << >>
        /\ callResult.record.target = TargetOfToken(callArgs.tokens[4])

\* C15 witness: a record was produced from a negative weight
C15_Witness ==
    /\ pc = "parsed" /\ callResult.kind = "record"
    /\ callArgs.tokens[2] = << 45, 51 >>
    /\ callResult.record.weight = 0


RECURSIVE VarIntValue(_)
\* the value the protocol gives a VarInt: 7 bits per byte, least
\* significant first, unsigned
VarIntValue(bytes) ==
    IF Len(bytes) = 1 THEN bytes[1] % 128
    ELSE (bytes[1] % 128) + 128 * VarIntValue(Tail(bytes))

\* buf starts with a whole VarInt of at most 5 bytes
HasLengthPrefix(buf) ==
    /\ ContinuationRun(buf, 0) < 5
    /\ ContinuationRun(buf, 0) < Len(buf)

HeaderSize(buf) == ContinuationRun(buf, 0) + 1

DeclaredLength(buf) == VarIntValue(SubSeq(buf, 1, HeaderSize(buf)))

\* C16 as claimed: readPacket returns only with headerSize + length bytes
\* or more in its buffer, length being the value of the leading VarInt, and
\* the packet it returns is the first headerSize + length bytes received.
C16_ReturnsExactlyDeclaredBytes ==
    (ReadReturned /\ HasLengthPrefix(stream)) =>
        /\ HasLengthPrefix(buffer)
        /\ Len(buffer) >= HeaderSize(buffer) + DeclaredLength(buffer)
        /\ packet = SubSeq(stream, 1, HeaderSize(stream) + DeclaredLength(stream))
        /\ Len(packet) - HeaderSize(packet) = DeclaredLength(packet)

\* all the server sends ends before a packet is complete: no byte, a part
\* of the length prefix, or fewer than headerSize + length bytes
EndsWhileAccumulating(bytes) ==
    \/ bytes = << >>
    \/ ContinuationRun(bytes, 0) = Len(bytes) /\ Len(bytes) < 5
    \/ /\ HasLengthPrefix(bytes)
       /\ Len(bytes) < HeaderSize(bytes) + DeclaredLength(bytes)

\* C17 as claimed: when the data ends while the framer is accumulating,
\* readPacket fails with the connection-closed error and returns no
\* packet, and the ping fails with that error on its one connection.
C17_EndOfDataIsConnectionClosed ==
    (io = "done" /\ EndsWhileAccumulating(stream)
       /\ pingPromise \notin NetworkErrors) =>
        /\ pingPromise = ConnectionClosedError
        /\ packet = << >>
        /\ socket.closes = 1
        /\ Len(written) <= 2

\* the fields of the packet parseStatusPacket was given, as the protocol
\* reads them
DeclaredId == VarIntValue(callArgs.id)
DeclaredJsonLength == VarIntValue(callArgs.jsonLength)

\* C18 as claimed: parseStatusPacket yields a document only for packet id 0
\* and a string length that fits the rest of the packet; another id gives the
\* unexpected-packet-id error, a string length beyond the remaining bytes the
\* truncated-payload error, both before JSON parsing.
C18_IdAndLengthChecked ==
    pc = "status_parsed" =>
        /\ DeclaredId # 0 => callResult = "unexpected packet id"
        /\ (DeclaredId = 0 /\ DeclaredJsonLength > Len(callArgs.payload))
              => callResult = "status payload truncated"
        /\ callResult = ""
              => DeclaredId = 0 /\ DeclaredJsonLength <= Len(callArgs.payload)

\* C19 as claimed: while the SRV lookup is pending, awaiting the response
\* or reading its body, its timer is armed to abort it.
C19_LookupBoundedInEveryPhase ==
    pc \in {"srv_fetch", "srv_body"} => srvTimer = "armed"

\* C20: every call of getServerStatus settles, with a status or an error,
\* once the timer is let to fire, whatever the transport does or does not do.
C20_CallSettles == (timer = "armed") ~> (outcome # "pending")

\* C20 witness: the timer settled a call whose first write was never accepted
C20_Witness ==
    /\ timer = "fired" /\ outcome = PingTimeoutError
    /\ timedOutAt = "w1" /\ io = "w1" /\ pingPromise = "pending"

=============================================================================
